---- MODULE Spec2Model ----
(***************************************************************************)
(* A model of the TOR traffic correlation backend: the datastore tables    *)
(* (database.py), the correlation engine (correlation_engine.py), the      *)
(* capture ingestion (pcap_ingestion.py) and the operations that feed the  *)
(* engine (insert_tor_node, insert_flow).                                  *)
(*                                                                         *)
(* Scores are Python floats in the source.  They are modelled as exact     *)
(* rationals <<numerator, denominator>> in lowest terms; round(x, 4) is    *)
(* modelled as the nearest integer number of ten-thousandths.  On every    *)
(* flow and node of the sets below the stored values and the threshold     *)
(* decisions of the model are those of the Python code; the two can differ *)
(* only where the exact value lies on a rounding or comparison boundary    *)
(* that the float misses by one unit in the last place.                    *)
(*                                                                         *)
(* Every datastore call of the source opens its own connection and commits *)
(* on exit (Database.get_connection), so every datastore call is one       *)
(* atomic step and other steps may interleave between two calls.           *)
(***************************************************************************)
EXTENDS Integers, Sequences, FiniteSets, TLC

VARIABLES
    tor_nodes,            \* table tor_nodes: a set of rows, fingerprint is the primary key
    network_flows,        \* table network_flows: row i has flow_id = i (SERIAL)
    correlation_results,  \* table correlation_results: row i has correlation_id = i (SERIAL)
    pc,                   \* pc[w]: position of request w inside correlate_all_flows
    local,                \* local[w]: the local variables of correlate_all_flows / correlate_flow_to_guards
    result,               \* result[w]: the last value returned by correlate_all_flows
    hist,                 \* hist[w]: history of request w (what it selected and inserted); not program state
    runs,                 \* history: batch runs completed so far (counted in QuietSpec only)
    temporal,             \* a call of calculate_temporal_score: its time difference and returned value
    bandwidth,            \* a call of calculate_bandwidth_score: its arguments and returned value
    pattern,              \* a call of calculate_pattern_score: its arguments and returned value
    capture,              \* the packets of the capture file handed to extract_flows
    extract,              \* the local variables of a call of PCAPIngestion.extract_flows
    fingerprints,         \* two calls of calculate_flow_fingerprint: their packet groups and returned values
    exit_node             \* exit_node[w]: the row the exit lookup of request w returned (line 113); the code
                          \* never reads it again, it is followed in SnapshotSpec only

vars == <<tor_nodes, network_flows, correlation_results, pc, local, result, hist, runs, temporal,
          bandwidth, pattern, capture, extract, fingerprints, exit_node>>

-----------------------------------------------------------------------------
(* Bounds of the model *)

\* number of flow rows the capture ingestion may insert
MaxFlows == 1
\* correlation settings, bounded: Config.MAX_CANDIDATE_NODES is 10 and the
\* fetch limit passed to get_guard_nodes is 100 in the source; the model keeps
\* the same code with smaller values so that truncation and the LIMIT happen
\* with three relays
MAX_CANDIDATE_NODES == 1
GUARD_FETCH_LIMIT == 2
\* largest time difference (seconds) calculate_temporal_score is applied to
MaxTimeDiff == 90000
\* number of batch runs in succession in QuietSpec
QuietRuns == 2
\* largest byte count and node bandwidth (KB/s) calculate_bandwidth_score is
\* applied to: with 5 KB/s the utilizations 0.05, 0.5 and 0.9 are whole byte
\* counts (256, 2560, 4608), with 1 KB/s the utilization reaches 4.8
MaxByteCount == 5000
MaxBandwidthKb == 5
\* largest number of occurrences of the fingerprint in a history passed to
\* calculate_pattern_score (the score is capped from five occurrences on)
MaxMatches == 6
\* number of leading packets calculate_flow_fingerprint reads (20 in the
\* source, packets[:20]), bounded so that a group of MaxGroup packets has
\* packets after the window
FINGERPRINT_WINDOW == 2
\* largest packet group calculate_flow_fingerprint is applied to directly
MaxGroup == 3
\* largest number of packets in the capture file handed to extract_flows
MaxPackets == 3

Workers == {"w1", "w2"}

\* relays of the directory: fingerprint -> address and role flags
Fingerprints == {"n1", "n2", "n3"}

NodeAddress == [n1 |-> "10.0.0.1", n2 |-> "10.0.0.2", n3 |-> "10.0.0.3"]

ExitFlagged == {"n1"}

GuardFlagged == {"n1", "n2", "n3"}

\* timestamp (seconds) of the captured flows
FlowTimestamps == {90000}

FlowByteCounts == {40}

FlowDstIps == {"10.0.0.1", "10.0.0.2"}

\* what a directory refresh may report for a relay: <<last_seen, bandwidth_kb, is_running>>
SeenNow == <<90000, 1, TRUE>>          \* seen at the flow's time
SeenHalfHourAgo == <<88200, 10, TRUE>> \* seen 1800 s before the flow
SeenHourAgo == <<86400, 1, TRUE>>      \* seen 3600 s before the flow
SeenLongAgo == <<0, 0, TRUE>>          \* seen more than a day before, bandwidth unknown
NotRunning == <<90000, 1, FALSE>>      \* seen at the flow's time, not running

\* packets: the headers scapy has dissected (hdr), the capture timestamp in
\* microseconds (time) and len(pkt) (len)
HeaderA ==
    [ip |-> TRUE, src |-> "192.168.1.5", dst |-> "10.0.0.1", l4 |-> "TCP",
     sport |-> 40000, dport |-> 443, flags |-> "S"]

HeaderB ==
    [ip |-> TRUE, src |-> "192.168.1.6", dst |-> "10.0.0.2", l4 |-> "UDP",
     sport |-> 5353, dport |-> 53, flags |-> ""]

\* the same connection as HeaderA, a later segment
HeaderAck == [HeaderA EXCEPT !.flags = "A"]

\* the opposite direction of HeaderA
HeaderBack ==
    [ip |-> TRUE, src |-> "10.0.0.1", dst |-> "192.168.1.5", l4 |-> "TCP",
     sport |-> 443, dport |-> 40000, flags |-> "SA"]

\* an IP packet that is neither TCP nor UDP (ICMP)
HeaderIcmp ==
    [ip |-> TRUE, src |-> "192.168.1.5", dst |-> "10.0.0.1", l4 |-> "ICMP",
     sport |-> 0, dport |-> 0, flags |-> ""]

\* a packet without an IP layer (ARP)
HeaderArp ==
    [ip |-> FALSE, src |-> "", dst |-> "", l4 |-> "", sport |-> 0, dport |-> 0, flags |-> ""]

Headers == {HeaderA, HeaderAck, HeaderBack, HeaderB, HeaderIcmp, HeaderArp}

PacketTimes == {0, 1001000, 1001500}

PacketLens == {60, 1500}

\* the packet groups calculate_flow_fingerprint is applied to directly: up to
\* MaxGroup packets of one header
PacketGroups(hdr) ==
    UNION { [1..n -> [hdr : {hdr}, time : PacketTimes, len : PacketLens]] : n \in 0..MaxGroup }

\* capture timestamp (microseconds) of the i-th packet of a capture file
PacketTimeAt(i) == (i - 1) * 1001000

\* the capture files handed to extract_flows: up to max packets
Captures(max) ==
    UNION { { [j \in 1..n |-> [hdr |-> c[j][1], time |-> PacketTimeAt(j), len |-> c[j][2]]] :
                c \in [1..n -> Headers \X PacketLens] } : n \in 0..max }

\* arguments of the direct calls of calculate_pattern_score: a fingerprint, and
\* a history of n entries equal to "fp", alone or after one other entry
PatternFingerprints == {"", "fp"}

Repeated(x, n) == [j \in 1..n |-> x]

Histories ==
    {Repeated("fp", n) : n \in 0..MaxMatches} \cup {<<"other">> \o Repeated("fp", n) : n \in 0..MaxMatches}

\* a NULL column read as None, written as a number no timestamp and no
\* bandwidth takes
None == 0 - 1

\* reports that leave a column of the relay NULL
SeenNever == <<None, 1, TRUE>>             \* last_seen missing
BandwidthMissing == <<88200, None, TRUE>>  \* seen 1800 s before the flow, bandwidth_kb missing
NothingKnown == <<None, None, TRUE>>       \* both missing

\* what the datastore may hold for a relay when columns can be NULL
FaultyReports ==
    [n1 |-> {SeenNever, SeenNow},
     n2 |-> {BandwidthMissing, SeenHalfHourAgo},
     n3 |-> {NothingKnown, SeenNow}]

\* byte count of the flows correlated against them: half of 1 KB/s
FaultyFlowByteCounts == {512}

NodeReports ==
    [n1 |-> {SeenNow, SeenLongAgo},
     n2 |-> {SeenHalfHourAgo, SeenHourAgo},
     n3 |-> {SeenLongAgo, SeenHourAgo, NotRunning}]

-----------------------------------------------------------------------------
(* Exact rational arithmetic for the float computations *)

RECURSIVE Gcd(_, _)
Gcd(a, b) == IF b = 0 THEN a ELSE Gcd(b, a % b)

Abs(a) == IF a < 0 THEN -a ELSE a

Rat(n, d) == LET g == Gcd(Abs(n), d) IN <<n \div g, d \div g>>

RAdd(x, y) == Rat(x[1] * y[2] + y[1] * x[2], x[2] * y[2])

RSub(x, y) == Rat(x[1] * y[2] - y[1] * x[2], x[2] * y[2])

RMul(x, y) == Rat(x[1] * y[1], x[2] * y[2])

RLeq(x, y) == x[1] * y[2] <= y[1] * x[2]

RMax(x, y) == IF RLeq(x, y) THEN y ELSE x

RMin(x, y) == IF RLeq(x, y) THEN x ELSE y

\* one decimal digit of long division: <<quotient so far, remainder>>
RECURSIVE Digits(_, _, _, _)
Digits(q, r, d, n) == IF n = 0 THEN <<q, r>> ELSE Digits(q * 10 + (r * 10) \div d, (r * 10) % d, d, n - 1)

\* variant: the digits after the fourth are dropped
Round4Down(x) == Digits(x[1] \div x[2], x[1] % x[2], x[2], 4)[1]

\* round(x, 4) of a non-negative x, as an integer number of ten-thousandths
\* (Python rounds to the nearest, an exact half to the even neighbour)
Round4(x) ==
    LET qr == Digits(x[1] \div x[2], x[1] % x[2], x[2], 4)
        q  == qr[1]
        r  == qr[2]
    IN  IF 2 * r > x[2] \/ (2 * r = x[2] /\ q % 2 = 1) THEN q + 1 ELSE q

-----------------------------------------------------------------------------
(* Config *)

TIME_WINDOW_SECONDS == 300

\* MIN_CONFIDENCE_THRESHOLD = 0.3
MIN_CONFIDENCE_THRESHOLD == Rat(3, 10)

-----------------------------------------------------------------------------
(* CorrelationEngine: the three scores *)

\* time_diff = abs((flow_timestamp - node_last_seen).total_seconds())
TimeDiff(flow_timestamp, node_last_seen) == Abs(flow_timestamp - node_last_seen)

\* variant: the 24 hour decay without its floor
TemporalOfNoFloor(time_diff) ==
    IF time_diff <= 300 THEN Rat(1, 1)
    ELSE IF time_diff <= 3600 THEN RSub(Rat(1, 1), Rat(time_diff - 300, 3300))
    ELSE RSub(Rat(1, 1), Rat(time_diff, 86400))

TemporalOf(time_diff) ==
    IF time_diff <= 300 THEN Rat(1, 1)
    ELSE IF time_diff <= 3600 THEN RSub(Rat(1, 1), Rat(time_diff - 300, 3300))
    ELSE RMax(Rat(1, 10), RSub(Rat(1, 1), Rat(time_diff, 86400)))

\* variant: the fallback of the exception handler is 1.0
TemporalFallbackOne(flow_timestamp, node_last_seen) ==
    IF flow_timestamp = None \/ node_last_seen = None THEN Rat(1, 1)
    ELSE TemporalOf(TimeDiff(flow_timestamp, node_last_seen))

\* the subtraction of line 26 raises TypeError on None; lines 37-39 return 0.0
calculate_temporal_score(flow_timestamp, node_last_seen) ==
    IF flow_timestamp = None \/ node_last_seen = None THEN Rat(0, 1)
    ELSE TemporalOf(TimeDiff(flow_timestamp, node_last_seen))

\* variant: the branch above 0.8 without its floor of 0.2
BandwidthNoFloor(flow_byte_count, node_bandwidth_kb) ==
    IF node_bandwidth_kb = None THEN Rat(0, 1) ELSE
    LET node_bandwidth_bytes == node_bandwidth_kb * 1024 IN
    IF node_bandwidth_bytes = 0 THEN Rat(1, 2)
    ELSE LET utilization == Rat(flow_byte_count, node_bandwidth_bytes) IN
         IF RLeq(Rat(1, 10), utilization) /\ RLeq(utilization, Rat(8, 10)) THEN Rat(1, 1)
         ELSE IF ~RLeq(Rat(1, 10), utilization) THEN RMul(utilization, Rat(10, 1))
         ELSE RSub(Rat(1, 1), RMul(RSub(utilization, Rat(8, 10)), Rat(5, 1)))

\* the multiplication of line 45 raises TypeError on None; lines 61-63 return 0.0
calculate_bandwidth_score(flow_byte_count, node_bandwidth_kb) ==
    IF node_bandwidth_kb = None THEN Rat(0, 1) ELSE
    LET node_bandwidth_bytes == node_bandwidth_kb * 1024 IN
    IF node_bandwidth_bytes = 0 THEN Rat(1, 2)
    ELSE LET utilization == Rat(flow_byte_count, node_bandwidth_bytes) IN
         IF RLeq(Rat(1, 10), utilization) /\ RLeq(utilization, Rat(8, 10)) THEN Rat(1, 1)
         ELSE IF ~RLeq(Rat(1, 10), utilization) THEN RMul(utilization, Rat(10, 1))
         ELSE RMax(Rat(2, 10), RSub(Rat(1, 1), RMul(RSub(utilization, Rat(8, 10)), Rat(5, 1))))

\* matches = number of entries of the history equal to the fingerprint
Matches(flow_fingerprint, historical_fingerprints) ==
    Cardinality({j \in 1..Len(historical_fingerprints) : historical_fingerprints[j] = flow_fingerprint})

\* variant: the score of a matching history without its cap of 1.0
PatternNoCap(flow_fingerprint, historical_fingerprints) ==
    IF flow_fingerprint = "" \/ historical_fingerprints = <<>> THEN Rat(1, 2)
    ELSE LET matches == Matches(flow_fingerprint, historical_fingerprints) IN
         IF matches > 0 THEN RAdd(Rat(1, 2), Rat(matches, 10))
         ELSE Rat(3, 10)

calculate_pattern_score(flow_fingerprint, historical_fingerprints) ==
    IF flow_fingerprint = "" \/ historical_fingerprints = <<>> THEN Rat(1, 2)
    ELSE LET matches == Matches(flow_fingerprint, historical_fingerprints) IN
         IF matches > 0 THEN RMin(Rat(1, 1), RAdd(Rat(1, 2), Rat(matches, 10)))
         ELSE Rat(3, 10)

\* variant: the weights of the temporal and the bandwidth score exchanged
ConfidenceSwapped(temporal_score, bandwidth_score, pattern_score) ==
    RAdd(RAdd(RMul(temporal_score, Rat(3, 10)), RMul(bandwidth_score, Rat(5, 10))),
         RMul(pattern_score, Rat(2, 10)))

\* confidence_score = temporal_score * 0.5 + bandwidth_score * 0.3 + pattern_score * 0.2
Confidence(temporal_score, bandwidth_score, pattern_score) ==
    RAdd(RAdd(RMul(temporal_score, Rat(5, 10)), RMul(bandwidth_score, Rat(3, 10))),
         RMul(pattern_score, Rat(2, 10)))

-----------------------------------------------------------------------------
(* PCAPIngestion.calculate_flow_fingerprint *)

\* the whole milliseconds d for which float(d / 1000) * 1000 is a double just
\* below d (1.001 * 1000 = 1000.9999999999999), among the differences of up
\* to 4 seconds; for every other difference of whole microseconds in that
\* range the product truncates to the milliseconds of the difference
ShortProducts ==
    {1001, 1003, 1005, 1007, 1009, 1011, 1013, 1015, 1017, 1019, 1021, 1023,
     2002, 2006, 2010, 2014, 2018, 2022, 2026, 2030, 2034, 2038, 2042, 2046}

\* int(float(packets[i].time - packets[i-1].time) * 1000) for a difference of
\* delta microseconds, -4000000 <= delta <= 4000000: int() truncates toward zero
FloatMs(delta) ==
    LET a == Abs(delta)
        ms == a \div 1000
        v == IF a % 1000 = 0 /\ ms \in ShortProducts THEN ms - 1 ELSE ms
    IN  IF delta < 0 THEN 0 - v ELSE v

\* f"sizes:{','.join(map(str, sizes))};times:{','.join(map(str, times))}": the
\* string determines the two integer sequences and is determined by them
FingerprintStr(sizes, times) == [sizes |-> sizes, times |-> times]

\* hashlib.sha256(fingerprint_str.encode()).hexdigest()[:32]: 32 hex
\* characters, never the empty string; different strings are taken to have
\* different digests
Sha256Hex32(str) == [sha256 |-> str]

calculate_flow_fingerprint(packets) ==
    IF packets = <<>> THEN ""
    ELSE LET n == IF Len(packets) < FINGERPRINT_WINDOW THEN Len(packets) ELSE FINGERPRINT_WINDOW
             sizes == [j \in 1..n |-> packets[j].len]
             times == IF Len(packets) > 1
                      THEN [j \in 1..(n - 1) |-> FloatMs(packets[j + 1].time - packets[j].time)]
                      ELSE <<>>
         IN  Sha256Hex32(FingerprintStr(sizes, times))

-----------------------------------------------------------------------------
(* PCAPIngestion.extract_flows: grouping the packets *)

\* lines 52-76: the 5-tuple of a packet with an IP layer
flow_key(pkt) ==
    IF pkt.hdr.l4 = "TCP"
    THEN <<pkt.hdr.src, pkt.hdr.dst, pkt.hdr.sport, pkt.hdr.dport, "TCP">>
    ELSE IF pkt.hdr.l4 = "UDP"
    THEN <<pkt.hdr.src, pkt.hdr.dst, pkt.hdr.sport, pkt.hdr.dport, "UDP">>
    ELSE <<pkt.hdr.src, pkt.hdr.dst, 0, 0, "OTHER">>

\* lines 58-71: the tcp_flags of a packet
tcp_flags(pkt) ==
    IF pkt.hdr.l4 = "TCP" THEN pkt.hdr.flags ELSE IF pkt.hdr.l4 = "UDP" THEN "--" ELSE ""

\* lines 79-85: the entry created for a key seen for the first time
NewFlow(pkt) ==
    [key |-> flow_key(pkt), packets |-> <<>>, start_time |-> pkt.time, end_time |-> pkt.time,
     byte_count |-> 0, tcp_flags |-> tcp_flags(pkt)]

\* variant: the bytes of the packet are not added
AddPacketUncounted(flow, pkt) ==
    [flow EXCEPT !.packets = Append(@, pkt), !.end_time = pkt.time]

\* lines 87-89
AddPacket(flow, pkt) ==
    [flow EXCEPT !.packets = Append(@, pkt), !.end_time = pkt.time, !.byte_count = @ + pkt.len]

\* variant: the entry of a new key is put in front of the dict's entries
GroupPacketPrepending(flows, pkt) ==
    IF ~pkt.hdr.ip THEN flows
    ELSE LET known == \E f \in 1..Len(flows) : flows[f].key = flow_key(pkt)
             entries == IF known THEN flows ELSE <<NewFlow(pkt)>> \o flows
         IN  [f \in 1..Len(entries) |->
                 IF entries[f].key = flow_key(pkt) THEN AddPacket(entries[f], pkt) ELSE entries[f]]

\* lines 49-89: the body of the grouping loop for one packet; flows is the
\* dict, its entries in insertion order
GroupPacketInto(flows, pkt) ==
    IF ~pkt.hdr.ip THEN flows
    ELSE LET known == \E f \in 1..Len(flows) : flows[f].key = flow_key(pkt)
             entries == IF known THEN flows ELSE Append(flows, NewFlow(pkt))
         IN  [f \in 1..Len(entries) |->
                 IF entries[f].key = flow_key(pkt) THEN AddPacket(entries[f], pkt) ELSE entries[f]]

\* lines 96-114: the record of one flow (pcap_filename and duration_ms, read
\* by no modelled operation, are left out)
flow_record(flow_data) ==
    [timestamp |-> flow_data.start_time,
     src_ip |-> flow_data.key[1], dst_ip |-> flow_data.key[2],
     src_port |-> flow_data.key[3], dst_port |-> flow_data.key[4],
     protocol |-> flow_data.key[5],
     packet_count |-> Len(flow_data.packets),
     byte_count |-> flow_data.byte_count,
     tcp_flags |-> flow_data.tcp_flags,
     flow_fingerprint |-> calculate_flow_fingerprint(flow_data.packets)]

-----------------------------------------------------------------------------
(* Database *)

\* the node_data a directory crawl passes to insert_tor_node for relay fp
NodeData(fp, report) ==
    [fingerprint |-> fp, ip_address |-> NodeAddress[fp],
     is_guard |-> fp \in GuardFlagged, is_exit |-> fp \in ExitFlagged,
     last_seen |-> report[1], bandwidth_kb |-> report[2], is_running |-> report[3]]

\* INSERT ... ON CONFLICT (fingerprint) DO UPDATE SET last_seen, bandwidth_kb, is_running
\* (nickname and flags, also updated, are read by no modelled operation)
UpsertNode(nodes, node_data) ==
    IF \E r \in nodes : r.fingerprint = node_data.fingerprint
    THEN { IF r.fingerprint = node_data.fingerprint
           THEN [r EXCEPT !.last_seen = node_data.last_seen,
                          !.bandwidth_kb = node_data.bandwidth_kb,
                          !.is_running = node_data.is_running]
           ELSE r : r \in nodes }
    ELSE nodes \cup {node_data}

\* variant: the insert is lost
InsertNothing(table, data) == table

\* INSERT INTO correlation_results (...) VALUES (...)
insert_correlation(table, data) == Append(table, data)

\* variant: the selection without its NOT IN clause
AllFlowIds(flows, correlations) == 1..Len(flows)

\* variant: the selection with IN for NOT IN
CorrelatedFlowIds(flows, correlations) ==
    { f \in 1..Len(flows) : \E j \in 1..Len(correlations) : correlations[j].flow_id = f }

\* SELECT flow_id FROM network_flows WHERE flow_id NOT IN (SELECT DISTINCT flow_id FROM correlation_results)
UncorrelatedFlowIds(flows, correlations) ==
    { f \in 1..Len(flows) : \A j \in 1..Len(correlations) : correlations[j].flow_id # f }

\* the rows of a query without ORDER BY come in an unspecified order: every
\* arrangement of n of the rows of S
Arrangements(S, n) ==
    { s \in [1..n -> S] : \A a, b \in 1..n : a # b => s[a] # s[b] }

\* variant: the lookup without its is_exit condition
NodesAt(nodes, ip) == { r \in nodes : r.ip_address = ip }

\* SELECT ... FROM tor_nodes WHERE ip_address = %s AND is_exit = TRUE
ExitNodes(nodes, ip) == { r \in nodes : r.ip_address = ip /\ r.is_exit }

\* SELECT fingerprint, last_seen, bandwidth_kb FROM tor_nodes ...: the columns
\* of the exit lookup
ExitColumns(r) ==
    [fingerprint |-> r.fingerprint, last_seen |-> r.last_seen, bandwidth_kb |-> r.bandwidth_kb]

\* SELECT * FROM tor_nodes WHERE is_guard = TRUE AND is_running = TRUE
GuardRows(nodes) == { r \in nodes : r.is_guard /\ r.is_running }

\* ... LIMIT {limit}: without ORDER BY, any `limit` of the rows in any order
get_guard_nodes(nodes, limit) ==
    LET rows == GuardRows(nodes)
        n == IF limit # 0 /\ limit < Cardinality(rows) THEN limit ELSE Cardinality(rows)
    IN  Arrangements(rows, n)

-----------------------------------------------------------------------------
(* CorrelationEngine.correlate_flow_to_guards: one candidate *)

\* the scores of one candidate node for the fetched flow, unrounded
Scores(flow, node) ==
    LET temporal_score == calculate_temporal_score(flow.timestamp, node.last_seen)
        bandwidth_score == calculate_bandwidth_score(flow.byte_count, node.bandwidth_kb)
        pattern_score == calculate_pattern_score(flow.flow_fingerprint, <<>>)
    IN  [temporal_score |-> temporal_score, bandwidth_score |-> bandwidth_score,
         pattern_score |-> pattern_score,
         confidence_score |-> Confidence(temporal_score, bandwidth_score, pattern_score)]

\* variant: > instead of >=
QualifiesStrictly(confidence_score) == ~RLeq(confidence_score, MIN_CONFIDENCE_THRESHOLD)

\* if confidence_score >= self.config.MIN_CONFIDENCE_THRESHOLD
Qualifies(confidence_score) == RLeq(MIN_CONFIDENCE_THRESHOLD, confidence_score)

correlation_data(flow_id, flow, node) ==
    LET s == Scores(flow, node) IN
    [flow_id |-> flow_id,
     candidate_node_fingerprint |-> node.fingerprint,
     confidence_score |-> Round4(s.confidence_score),
     temporal_score |-> Round4(s.temporal_score),
     bandwidth_score |-> Round4(s.bandwidth_score),
     pattern_score |-> Round4(s.pattern_score),
     evidence |-> [node_ip |-> node.ip_address, exit_node_used |-> flow.dst_ip,
                   time_window_seconds |-> TIME_WINDOW_SECONDS]]

\* correlations.sort(key=confidence_score, reverse=True): a stable sort, equal
\* scores keep their order
RECURSIVE InsertDesc(_, _)
InsertDesc(sorted, c) ==
    IF sorted = <<>> THEN <<c>>
    ELSE IF c.confidence_score > Head(sorted).confidence_score THEN <<c>> \o sorted
    ELSE <<Head(sorted)>> \o InsertDesc(Tail(sorted), c)

RECURSIVE SortDesc(_)
SortDesc(cs) ==
    IF cs = <<>> THEN <<>> ELSE InsertDesc(SortDesc(SubSeq(cs, 1, Len(cs) - 1)), cs[Len(cs)])

\* correlations[:self.config.MAX_CANDIDATE_NODES]
Truncate(cs, n) == SubSeq(cs, 1, IF Len(cs) < n THEN Len(cs) ELSE n)

\* variant: truncated before it is sorted
TruncatedThenSorted(cs) == SortDesc(Truncate(cs, MAX_CANDIDATE_NODES))

Ranked(cs) == Truncate(SortDesc(cs), MAX_CANDIDATE_NODES)

-----------------------------------------------------------------------------
(* State *)

NoLocals ==
    [flow_ids |-> <<>>, k |-> 0, flow |-> <<>>, guard_nodes |-> <<>>, i |-> 0,
     correlations |-> <<>>, total_correlations |-> 0]

NoHistory == [sel_correlated |-> {}, sel_flows |-> 0, ins |-> {}, run_ins |-> 0, outcome |-> "none"]

NoResult == [kind |-> "none"]

NoCall == [flow_timestamp |-> 0, node_last_seen |-> 0, called |-> FALSE, score |-> <<0, 1>>]

\* the state after construction: initialize_schema has created the empty tables
EmptyTables ==
    /\ tor_nodes = {}
    /\ network_flows = <<>>
    /\ correlation_results = <<>>
    /\ pc = [w \in Workers |-> "idle"]
    /\ local = [w \in Workers |-> NoLocals]
    /\ result = [w \in Workers |-> NoResult]
    /\ hist = [w \in Workers |-> NoHistory]
    /\ runs = 0
    /\ exit_node = [w \in Workers |-> <<>>]

NoBandwidthCall == [flow_byte_count |-> 0, node_bandwidth_kb |-> 0, called |-> FALSE, score |-> <<0, 1>>]

NoPatternCall ==
    [flow_fingerprint |-> "", historical_fingerprints |-> <<>>, called |-> FALSE, score |-> <<0, 1>>]

NoCapture == <<>>

NoExtract == [at |-> "idle", i |-> 0, flows |-> <<>>, k |-> 0, flow_ids |-> <<>>]

NoFingerprintCalls == [groups |-> <<>>, called |-> FALSE, values |-> <<>>]

\* no direct call of a scoring function is in progress
NoScoreCalls == temporal = NoCall /\ bandwidth = NoBandwidthCall /\ pattern = NoPatternCall

\* no capture is being ingested, no direct call of calculate_flow_fingerprint is in progress
NoIngestion == capture = NoCapture /\ extract = NoExtract /\ fingerprints = NoFingerprintCalls

Init == EmptyTables /\ NoScoreCalls /\ NoIngestion

-----------------------------------------------------------------------------
(* Operations that feed the engine *)

\* Database.insert_tor_node, called by the directory crawl for each relay
insert_tor_node(fp, report) ==
    /\ tor_nodes' = UpsertNode(tor_nodes, NodeData(fp, report))
    /\ tor_nodes' # tor_nodes
    /\ UNCHANGED <<network_flows, correlation_results, pc, local, result, hist, runs, temporal, bandwidth, pattern, capture, extract, fingerprints, exit_node>>

\* Database.insert_flow, called by the capture ingestion for each extracted flow
insert_flow(flow_data) ==
    /\ Len(network_flows) < MaxFlows
    /\ network_flows' = Append(network_flows, flow_data)
    /\ UNCHANGED <<tor_nodes, correlation_results, pc, local, result, hist, runs, temporal, bandwidth, pattern, capture, extract, fingerprints, exit_node>>

-----------------------------------------------------------------------------
(* CorrelationEngine.correlate_all_flows and correlate_flow_to_guards, request w *)

\* correlate_all_flows, lines 187-197: select the flows without correlations
SelectFlows(w) ==
    /\ pc[w] = "idle"
    /\ \E flow_ids \in LET ids == UncorrelatedFlowIds(network_flows, correlation_results)
                       IN  Arrangements(ids, Cardinality(ids)) :
          local' = [local EXCEPT ![w] = [NoLocals EXCEPT !.flow_ids = flow_ids, !.k = 1]]
    /\ pc' = [pc EXCEPT ![w] = "next_flow"]
    /\ result' = [result EXCEPT ![w] = NoResult]
    /\ hist' = [hist EXCEPT ![w] =
                  [sel_correlated |-> {correlation_results[j].flow_id : j \in 1..Len(correlation_results)},
                   sel_flows |-> Len(network_flows),
                   ins |-> {}, run_ins |-> 0, outcome |-> "none"]]
    /\ UNCHANGED <<tor_nodes, network_flows, correlation_results, runs, temporal, bandwidth, pattern, capture, extract, fingerprints, exit_node>>

\* correlate_all_flows, lines 208-210: the selection fails, {'error': ...} is returned
SelectFails(w) ==
    /\ pc[w] = "idle"
    /\ result' = [result EXCEPT ![w] = [kind |-> "error"]]
    /\ local' = [local EXCEPT ![w] = NoLocals]
    /\ hist' = [hist EXCEPT ![w] = NoHistory]
    /\ UNCHANGED <<tor_nodes, network_flows, correlation_results, pc, runs, temporal, bandwidth, pattern, capture, extract, fingerprints, exit_node>>

\* lines 199-200: correlate_flow_to_guards returns `returned` to the batch loop
ReturnToBatch(w, returned) ==
    /\ local' = [local EXCEPT ![w] =
                   [@ EXCEPT !.correlations = returned,
                             !.total_correlations = @ + Len(returned),
                             !.k = @ + 1, !.flow = <<>>, !.guard_nodes = <<>>, !.i = 0]]
    /\ pc' = [pc EXCEPT ![w] = "next_flow"]

\* correlate_flow_to_guards, lines 87-100: fetch the flow row
FetchFlow(w) ==
    /\ pc[w] = "next_flow"
    /\ local[w].k <= Len(local[w].flow_ids)
    /\ LET flow_id == local[w].flow_ids[local[w].k] IN
       IF flow_id \in 1..Len(network_flows)
       THEN /\ local' = [local EXCEPT ![w] =
                           [@ EXCEPT !.flow = <<network_flows[flow_id]>>, !.correlations = <<>>]]
            /\ pc' = [pc EXCEPT ![w] = "exit_gate"]
       ELSE ReturnToBatch(w, <<>>)
    /\ hist' = [hist EXCEPT ![w] = [@ EXCEPT !.ins = {}, !.outcome = "running"]]
    /\ UNCHANGED <<tor_nodes, network_flows, correlation_results, result, runs, temporal, bandwidth, pattern, capture, extract, fingerprints, exit_node>>

\* correlate_flow_to_guards, lines 104-116: is the destination a known exit?
ExitLookup(w) ==
    /\ pc[w] = "exit_gate"
    /\ IF ExitNodes(tor_nodes, local[w].flow[1].dst_ip) = {}
       THEN /\ ReturnToBatch(w, <<>>)
            /\ hist' = [hist EXCEPT ![w] = [@ EXCEPT !.outcome = "no_exit"]]
       ELSE /\ pc' = [pc EXCEPT ![w] = "guards"]
            /\ UNCHANGED <<local, hist>>
    /\ UNCHANGED <<tor_nodes, network_flows, correlation_results, result, runs, temporal, bandwidth, pattern, capture, extract, fingerprints>>

ExitGate(w) == ExitLookup(w) /\ UNCHANGED exit_node

\* the same step, the fetched row kept: exit_node = cursor.fetchone() (line 113)
\* returns one of the rows of the lookup, or None
TrackedExitGate(w) ==
    /\ ExitLookup(w)
    /\ LET rows == ExitNodes(tor_nodes, local[w].flow[1].dst_ip) IN
       IF rows = {}
       THEN exit_node' = [exit_node EXCEPT ![w] = <<>>]
       ELSE \E r \in rows : exit_node' = [exit_node EXCEPT ![w] = <<ExitColumns(r)>>]

\* correlate_flow_to_guards, lines 119-125: fetch the candidate guard nodes
GetGuards(w) ==
    /\ pc[w] = "guards"
    /\ \E guard_nodes \in get_guard_nodes(tor_nodes, GUARD_FETCH_LIMIT) :
          local' = [local EXCEPT ![w] =
                      [@ EXCEPT !.guard_nodes = guard_nodes, !.i = 1, !.correlations = <<>>]]
    /\ pc' = [pc EXCEPT ![w] = "score"]
    /\ UNCHANGED <<tor_nodes, network_flows, correlation_results, result, hist, runs, temporal, bandwidth, pattern, capture, extract, fingerprints, exit_node>>

\* the candidate the loop of line 126 is at
Candidate(w) == local[w].guard_nodes[local[w].i]

CurrentFlowId(w) == local[w].flow_ids[local[w].k]

\* does the loop body reach insert_correlation for its candidate?
Inserting(w) ==
    /\ pc[w] = "score"
    /\ local[w].i <= Len(local[w].guard_nodes)
    /\ Qualifies(Scores(local[w].flow[1], Candidate(w)).confidence_score)

\* correlate_flow_to_guards, lines 126-170: score one candidate, insert and keep it
\* when it reaches the threshold
ScoreCandidate(w) ==
    /\ pc[w] = "score"
    /\ local[w].i <= Len(local[w].guard_nodes)
    /\ IF Inserting(w)
       THEN LET data == correlation_data(CurrentFlowId(w), local[w].flow[1], Candidate(w)) IN
            /\ correlation_results' = insert_correlation(correlation_results, data)
            /\ local' = [local EXCEPT ![w] =
                           [@ EXCEPT !.correlations = Append(@, data), !.i = @ + 1]]
            /\ hist' = [hist EXCEPT ![w] =
                          [@ EXCEPT !.ins = @ \cup {Len(correlation_results) + 1},
                                    !.run_ins = @ + 1]]
       ELSE /\ local' = [local EXCEPT ![w] = [@ EXCEPT !.i = @ + 1]]
            /\ UNCHANGED <<correlation_results, hist>>
    /\ UNCHANGED <<tor_nodes, network_flows, pc, result, runs, temporal, bandwidth, pattern, capture, extract, fingerprints, exit_node>>

\* correlate_flow_to_guards, lines 172-177: sort, truncate and return
FlowReturn(w) ==
    /\ pc[w] = "score"
    /\ local[w].i > Len(local[w].guard_nodes)
    /\ ReturnToBatch(w, Ranked(local[w].correlations))
    /\ hist' = [hist EXCEPT ![w] = [@ EXCEPT !.outcome = "returned"]]
    /\ UNCHANGED <<tor_nodes, network_flows, correlation_results, result, runs, temporal, bandwidth, pattern, capture, extract, fingerprints, exit_node>>

\* correlate_flow_to_guards, lines 179-181: a datastore call of the flow raises,
\* the handler returns []
DbFailure(w) ==
    /\ \/ pc[w] = "next_flow" /\ local[w].k <= Len(local[w].flow_ids)
       \/ pc[w] \in {"exit_gate", "guards"}
       \/ Inserting(w)
    /\ ReturnToBatch(w, <<>>)
    /\ hist' = [hist EXCEPT ![w] =
                  [@ EXCEPT !.ins = IF pc[w] = "next_flow" THEN {} ELSE @, !.outcome = "failed"]]
    /\ UNCHANGED <<tor_nodes, network_flows, correlation_results, result, runs, temporal, bandwidth, pattern, capture, extract, fingerprints, exit_node>>

\* correlate_all_flows, lines 202-206: the loop is over, the totals are returned
ReturnTotals(w) ==
    /\ pc[w] = "next_flow"
    /\ local[w].k > Len(local[w].flow_ids)
    /\ result' = [result EXCEPT ![w] =
                    [kind |-> "ok", flows_processed |-> Len(local[w].flow_ids),
                     total_correlations |-> local[w].total_correlations]]
    /\ pc' = [pc EXCEPT ![w] = "idle"]
    /\ UNCHANGED <<tor_nodes, network_flows, correlation_results, local, hist, temporal, bandwidth, pattern, capture, extract, fingerprints, exit_node>>

BatchReturn(w) == ReturnTotals(w) /\ UNCHANGED runs

\* the same step, counted: the history of QuietSpec
CountedBatchReturn(w) == ReturnTotals(w) /\ runs' = runs + 1

\* calculate_temporal_score applied to the drawn pair of timestamps
CallTemporal ==
    /\ ~temporal.called
    /\ temporal' = [temporal EXCEPT !.called = TRUE,
                       !.score = calculate_temporal_score(temporal.flow_timestamp,
                                                         temporal.node_last_seen)]
    /\ UNCHANGED <<tor_nodes, network_flows, correlation_results, pc, local, result, hist, runs,
                   bandwidth, pattern, capture, extract, fingerprints, exit_node>>

\* calculate_bandwidth_score applied to the drawn byte count and bandwidth
CallBandwidth ==
    /\ ~bandwidth.called
    /\ bandwidth' = [bandwidth EXCEPT !.called = TRUE,
                         !.score = calculate_bandwidth_score(bandwidth.flow_byte_count,
                                                            bandwidth.node_bandwidth_kb)]
    /\ UNCHANGED <<tor_nodes, network_flows, correlation_results, pc, local, result, hist, runs,
                   temporal, pattern, capture, extract, fingerprints, exit_node>>

\* calculate_pattern_score applied to the drawn fingerprint and history
CallPattern ==
    /\ ~pattern.called
    /\ pattern' = [pattern EXCEPT !.called = TRUE,
                       !.score = calculate_pattern_score(pattern.flow_fingerprint,
                                                        pattern.historical_fingerprints)]
    /\ UNCHANGED <<tor_nodes, network_flows, correlation_results, pc, local, result, hist, runs,
                   temporal, bandwidth, capture, extract, fingerprints, exit_node>>

-----------------------------------------------------------------------------
(* PCAPIngestion.extract_flows on the capture file *)

\* line 43: rdpcap has read the packets of the file
ReadCapture ==
    /\ extract.at = "idle"
    /\ extract' = [NoExtract EXCEPT !.at = "running", !.i = 1, !.k = 1]
    /\ UNCHANGED <<tor_nodes, network_flows, correlation_results, pc, local, result, hist, runs,
                   temporal, bandwidth, pattern, capture, fingerprints, exit_node>>

\* lines 43, 122-124: rdpcap raises (no such file, not a capture), the
\* exception is logged and raised again
ReadFails ==
    /\ extract.at = "idle"
    /\ extract' = [NoExtract EXCEPT !.at = "raised"]
    /\ UNCHANGED <<tor_nodes, network_flows, correlation_results, pc, local, result, hist, runs,
                   temporal, bandwidth, pattern, capture, fingerprints, exit_node>>

\* lines 48-89: one iteration of the grouping loop
GroupPacket ==
    /\ extract.at = "running"
    /\ extract.i <= Len(capture)
    /\ extract' = [extract EXCEPT !.flows = GroupPacketInto(@, capture[extract.i]), !.i = @ + 1]
    /\ UNCHANGED <<tor_nodes, network_flows, correlation_results, pc, local, result, hist, runs,
                   temporal, bandwidth, pattern, capture, fingerprints, exit_node>>

\* is the insert loop of line 95 at an entry of the dict?
Persisting ==
    /\ extract.at = "running"
    /\ extract.i > Len(capture)
    /\ extract.k <= Len(extract.flows)

\* lines 95-117: one iteration of the insert loop; Database.insert_flow
\* inserts the record in a transaction of its own and returns the new flow_id
PersistFlow ==
    /\ Persisting
    /\ network_flows' = Append(network_flows, flow_record(extract.flows[extract.k]))
    /\ extract' = [extract EXCEPT !.flow_ids = Append(@, Len(network_flows) + 1), !.k = @ + 1]
    /\ UNCHANGED <<tor_nodes, correlation_results, pc, local, result, hist, runs,
                   temporal, bandwidth, pattern, capture, fingerprints, exit_node>>

\* lines 116, 122-124: Database.insert_flow raises, its transaction is rolled
\* back (get_connection), the exception is logged and raised again
PersistFails ==
    /\ Persisting
    /\ extract' = [extract EXCEPT !.at = "raised"]
    /\ UNCHANGED <<tor_nodes, network_flows, correlation_results, pc, local, result, hist, runs,
                   temporal, bandwidth, pattern, capture, fingerprints, exit_node>>

\* line 120: return flow_ids
ExtractReturn ==
    /\ extract.at = "running"
    /\ extract.i > Len(capture)
    /\ extract.k > Len(extract.flows)
    /\ extract' = [extract EXCEPT !.at = "returned"]
    /\ UNCHANGED <<tor_nodes, network_flows, correlation_results, pc, local, result, hist, runs,
                   temporal, bandwidth, pattern, capture, fingerprints, exit_node>>

\* calculate_flow_fingerprint applied to each of the drawn packet groups
CallFingerprint ==
    /\ ~fingerprints.called
    /\ fingerprints' = [fingerprints EXCEPT !.called = TRUE,
                            !.values = [g \in DOMAIN fingerprints.groups |->
                                           calculate_flow_fingerprint(fingerprints.groups[g])]]
    /\ UNCHANGED <<tor_nodes, network_flows, correlation_results, pc, local, result, hist, runs,
                   temporal, bandwidth, pattern, capture, extract, exit_node>>

-----------------------------------------------------------------------------
(* Specifications *)

Refresh == \E fp \in Fingerprints : \E report \in NodeReports[fp] : insert_tor_node(fp, report)

Ingest ==
    \E ts \in FlowTimestamps, ip \in FlowDstIps, bc \in FlowByteCounts :
        insert_flow([timestamp |-> ts, dst_ip |-> ip, byte_count |-> bc, flow_fingerprint |-> "fp"])

\* a directory whose rows may have NULL columns, and a flow of 512 bytes
FaultyRefresh ==
    \E fp \in Fingerprints : \E report \in FaultyReports[fp] : insert_tor_node(fp, report)

FaultyIngest ==
    \E ts \in FlowTimestamps, ip \in FlowDstIps, bc \in FaultyFlowByteCounts :
        insert_flow([timestamp |-> ts, dst_ip |-> ip, byte_count |-> bc, flow_fingerprint |-> "fp"])

\* one request at a time: batch runs do not overlap
Next ==
    \/ Refresh
    \/ Ingest
    \/ SelectFlows("w1")
    \/ SelectFails("w1")
    \/ FetchFlow("w1")
    \/ ExitGate("w1")
    \/ GetGuards("w1")
    \/ ScoreCandidate("w1")
    \/ FlowReturn("w1")
    \/ DbFailure("w1")
    \/ BatchReturn("w1")

Spec == Init /\ [][Next]_vars

\* two batch runs in succession: the tables are filled first, then nothing
\* but the runs happens, and no datastore call fails
Filling == runs = 0 /\ pc["w1"] = "idle" /\ result["w1"] = NoResult

QuietNext ==
    \/ Filling /\ Refresh
    \/ Filling /\ Ingest
    \/ runs < QuietRuns /\ SelectFlows("w1")
    \/ FetchFlow("w1")
    \/ ExitGate("w1")
    \/ GetGuards("w1")
    \/ ScoreCandidate("w1")
    \/ FlowReturn("w1")
    \/ CountedBatchReturn("w1")

QuietSpec == Init /\ [][QuietNext]_vars

\* two requests POST /api/correlation/run served at the same time
ConcNext ==
    \/ Refresh
    \/ Ingest
    \/ \E w \in Workers :
          \/ SelectFlows(w)
          \/ FetchFlow(w)
          \/ ExitGate(w)
          \/ GetGuards(w)
          \/ ScoreCandidate(w)
          \/ FlowReturn(w)
          \/ BatchReturn(w)

ConcSpec == Init /\ [][ConcNext]_vars

\* batch runs over a directory whose rows may have NULL columns; no datastore
\* call fails
FaultyNext ==
    \/ FaultyRefresh
    \/ FaultyIngest
    \/ SelectFlows("w1")
    \/ FetchFlow("w1")
    \/ ExitGate("w1")
    \/ GetGuards("w1")
    \/ ScoreCandidate("w1")
    \/ FlowReturn("w1")
    \/ BatchReturn("w1")

FaultySpec == Init /\ [][FaultyNext]_vars

\* batch runs with directory refreshes in between their datastore calls, the
\* row of the exit lookup followed; no datastore call fails
SnapshotNext ==
    \/ Refresh
    \/ Ingest
    \/ SelectFlows("w1")
    \/ FetchFlow("w1")
    \/ TrackedExitGate("w1")
    \/ GetGuards("w1")
    \/ ScoreCandidate("w1")
    \/ FlowReturn("w1")
    \/ BatchReturn("w1")

SnapshotSpec == Init /\ [][SnapshotNext]_vars

\* calculate_temporal_score as a function: a flow timestamp and a last_seen
\* value are drawn, then the function is applied
TemporalInit ==
    /\ EmptyTables
    /\ \E a \in 0..MaxTimeDiff, b \in {0, MaxTimeDiff} :
          temporal = [NoCall EXCEPT !.flow_timestamp = a, !.node_last_seen = b]
    /\ bandwidth = NoBandwidthCall /\ pattern = NoPatternCall
    /\ NoIngestion

TemporalSpec == TemporalInit /\ [][CallTemporal]_vars

\* calculate_bandwidth_score as a function: a byte count and a node bandwidth
\* are drawn, then the function is applied
BandwidthInit ==
    /\ EmptyTables
    /\ \E bc \in 0..MaxByteCount, kb \in 0..MaxBandwidthKb :
          bandwidth = [NoBandwidthCall EXCEPT !.flow_byte_count = bc, !.node_bandwidth_kb = kb]
    /\ temporal = NoCall /\ pattern = NoPatternCall
    /\ NoIngestion

BandwidthSpec == BandwidthInit /\ [][CallBandwidth]_vars

\* calculate_pattern_score called directly on a drawn fingerprint and history,
\* next to batch runs of the engine, whose call site (lines 139-142) passes
\* the history []
PatternInit ==
    /\ EmptyTables
    /\ \E fp \in PatternFingerprints, h \in Histories :
          pattern = [NoPatternCall EXCEPT !.flow_fingerprint = fp, !.historical_fingerprints = h]
    /\ temporal = NoCall /\ bandwidth = NoBandwidthCall
    /\ NoIngestion

PatternNext == CallPattern \/ QuietNext

PatternSpec == PatternInit /\ [][PatternNext]_vars

\* calculate_flow_fingerprint as a function: two packet groups are drawn, the
\* second with either header, then the function is applied to both
FingerprintInit ==
    /\ EmptyTables
    /\ NoScoreCalls
    /\ capture = NoCapture /\ extract = NoExtract
    /\ \E g1 \in PacketGroups(HeaderA), g2 \in PacketGroups(HeaderA) \cup PacketGroups(HeaderB) :
          fingerprints = [NoFingerprintCalls EXCEPT !.groups = <<g1, g2>>]

FingerprintSpec == FingerprintInit /\ [][CallFingerprint]_vars

\* extract_flows (ingest_pcap) called once on a drawn capture file, the
\* tables empty
ExtractInit ==
    /\ EmptyTables
    /\ NoScoreCalls
    /\ capture \in Captures(MaxPackets)
    /\ extract = NoExtract
    /\ fingerprints = NoFingerprintCalls

ExtractNext ==
    \/ ReadCapture
    \/ ReadFails
    \/ GroupPacket
    \/ PersistFlow
    \/ PersistFails
    \/ ExtractReturn

ExtractSpec == ExtractInit /\ [][ExtractNext]_vars

-----------------------------------------------------------------------------
(* Properties *)

\* the list the last call of correlate_flow_to_guards of w returned (line 199)
Returned(w) == local[w].correlations

\* the rows that call inserted
Persisted(w) == { id \in hist[w].ins : id <= Len(correlation_results) }

CallEnded(w) == pc[w] \in {"next_flow", "idle"}

ReturnedNormally(w) == CallEnded(w) /\ hist[w].outcome = "returned"

FlowOf(row) == network_flows[row.flow_id]

Rows == 1..Len(correlation_results)

\* C1: the second of two batch runs in succession, with no flow or node
\* change and no datastore failure in between, inserts no correlation record.
C1_SecondRunInsertsNothing ==
    (runs >= 2 /\ pc["w1"] = "idle") => hist["w1"].run_ins = 0

\* C2: a batch run never inserts a correlation record for a flow that had a
\* record when the run selected its flows, and no step changes or removes an
\* existing correlation record.
C2_NeverRecorrelated ==
    [][ /\ Len(correlation_results') >= Len(correlation_results)
        /\ \A j \in Rows : correlation_results'[j] = correlation_results[j]
        /\ \A j \in (Len(correlation_results) + 1)..Len(correlation_results') :
              \A w \in Workers :
                  pc[w] # "idle" => correlation_results'[j].flow_id \notin hist[w].sel_correlated
      ]_vars

\* C2 witness: a run that selected its flows when a flow already had a record
\* has completed, and the node of that record has changed since.
C2_Witness ==
    /\ pc["w1"] = "idle"
    /\ result["w1"].kind = "ok"
    /\ hist["w1"].sel_correlated # {}
    /\ \E j \in Rows : \E n \in tor_nodes :
          /\ n.fingerprint = correlation_results[j].candidate_node_fingerprint
          /\ correlation_data(correlation_results[j].flow_id, FlowOf(correlation_results[j]), n)
               # correlation_results[j]

\* C3: at most one correlation record exists for every (flow, node) pair, also
\* when two batch runs overlap.
C3_AtMostOncePerPair ==
    \A a, b \in Rows :
        a # b => \/ correlation_results[a].flow_id # correlation_results[b].flow_id
                 \/ correlation_results[a].candidate_node_fingerprint
                      # correlation_results[b].candidate_node_fingerprint

\* C4: every result correlate_flow_to_guards returns is a record that call
\* has inserted into correlation_results.
C4_ReturnedWerePersisted ==
    \A w \in Workers :
        CallEnded(w) =>
            \A m \in 1..Len(Returned(w)) :
                \E id \in Persisted(w) : correlation_results[id] = Returned(w)[m]

\* C4 witness: a call has returned a non-empty list.
C4_Witness == \E w \in Workers : ReturnedNormally(w) /\ Returned(w) # <<>>

\* C5: a call of correlate_flow_to_guards persists at most MAX_CANDIDATE_NODES
\* records, and every record it persists is in the list it returns.
C5_PersistedAreReturned ==
    \A w \in Workers :
        ReturnedNormally(w) =>
            /\ Cardinality(Persisted(w)) <= MAX_CANDIDATE_NODES
            /\ \A id \in Persisted(w) :
                  \E m \in 1..Len(Returned(w)) : Returned(w)[m] = correlation_results[id]

\* is ip the address of a node with is_exit = TRUE?
KnownExit(ip) == \E n \in tor_nodes : n.ip_address = ip /\ n.is_exit

\* C6: a call for a flow whose destination is no known exit node returns the
\* empty list and inserts nothing, and every correlation record belongs to a
\* flow whose destination is a known exit node.
C6_ExitGated ==
    /\ \A w \in Workers :
          hist[w].outcome = "no_exit" => Returned(w) = <<>> /\ hist[w].ins = {}
    /\ \A j \in Rows : KnownExit(FlowOf(correlation_results[j]).dst_ip)

\* does the guard node n reach the threshold for the flow, by exact arithmetic?
AtOrAbove(flow, n) ==
    LET c == Scores(flow, n).confidence_score IN 3 * c[2] <= 10 * c[1]

\* C6 witness: the gate has turned a flow away while a running guard node
\* reaches the threshold for it.
C6_Witness ==
    \E w \in Workers :
        /\ hist[w].outcome = "no_exit"
        /\ CallEnded(w)
        /\ \E n \in tor_nodes : n.is_guard /\ n.is_running /\ AtOrAbove(network_flows[1], n)

\* the candidates of the fetched list the loop of w has gone through
Done(w) == 1..(local[w].i - 1)

KeptAndPersisted(w, n) ==
    \E m \in 1..Len(local[w].correlations) :
        /\ local[w].correlations[m].candidate_node_fingerprint = n.fingerprint
        /\ \E id \in Persisted(w) : correlation_results[id] = local[w].correlations[m]

\* C7: a candidate is kept and persisted exactly when its confidence is at or
\* above the threshold 0.3, and every stored confidence_score is at least 0.3.
C7_ThresholdInclusive ==
    /\ \A w \in Workers :
          pc[w] = "score" =>
              \A j \in Done(w) :
                  AtOrAbove(local[w].flow[1], local[w].guard_nodes[j])
                      <=> KeptAndPersisted(w, local[w].guard_nodes[j])
    /\ \A j \in Rows : correlation_results[j].confidence_score >= 3000

\* C7 witness: the loop has kept a candidate exactly at the threshold and has
\* dropped one below it.
C7_Witness ==
    \E w \in Workers :
        /\ pc[w] = "score"
        /\ \E j \in Done(w) :
              /\ Scores(local[w].flow[1], local[w].guard_nodes[j]).confidence_score = <<3, 10>>
              /\ KeptAndPersisted(w, local[w].guard_nodes[j])
        /\ \E j \in Done(w) : ~AtOrAbove(local[w].flow[1], local[w].guard_nodes[j])

Min(a, b) == IF a < b THEN a ELSE b

TenTimesStoredSum(row) == 5 * row.temporal_score + 3 * row.bandwidth_score + 2 * row.pattern_score

\* C9 as claimed: the stored confidence_score is the weighted sum of the
\* stored component scores rounded to 4 decimal places (to either neighbour
\* when the sum is an exact half).
C9_EqualsRoundedStoredSum ==
    \A j \in Rows :
        Abs(10 * correlation_results[j].confidence_score - TenTimesStoredSum(correlation_results[j])) <= 5

\* C9 amended: the stored confidence_score, the rounding of the weighted sum
\* of the unrounded scores, is within 0.0001 of the weighted sum of the
\* stored component scores.
C9_WithinOneUnitOfStoredSum ==
    \A j \in Rows :
        Abs(10 * correlation_results[j].confidence_score - TenTimesStoredSum(correlation_results[j])) <= 10

\* C9 witness: a record whose stored confidence_score is not the rounding of
\* the weighted sum of its stored component scores.
C9_Witness ==
    \E j \in Rows :
        Abs(10 * correlation_results[j].confidence_score - TenTimesStoredSum(correlation_results[j])) > 5

\* the time difference of the call of calculate_temporal_score
CallTimeDiff == Abs(temporal.flow_timestamp - temporal.node_last_seen)

RDist(x, y) == LET d == RSub(x, y) IN <<Abs(d[1]), d[2]>>

\* C11: the temporal score is continuous at the boundaries 300 and 3600: on
\* whole seconds, the score at 300 is within one step (1/3300) of the value of
\* the linear-decay branch at 301, and the score at 3600 is within one step of
\* the value of the 24-hour-decay branch at 3601.
C11_ContinuousAtBoundaries ==
    temporal.called =>
        /\ CallTimeDiff = 300 =>
              RLeq(RDist(temporal.score, RSub(Rat(1, 1), Rat(301 - 300, 3300))), Rat(1, 3300))
        /\ CallTimeDiff = 3600 =>
              RLeq(RDist(temporal.score, RSub(Rat(1, 1), Rat(3601, 86400))), Rat(1, 3300))

\* the half of C11 at 300 alone
C11_ContinuousAt300 ==
    (temporal.called /\ CallTimeDiff = 300) =>
        RLeq(RDist(temporal.score, RSub(Rat(1, 1), Rat(301 - 300, 3300))), Rat(1, 3300))

\* C12 as claimed: the temporal score is 1.0 at time differences 0 and 300,
\* and at 1800 its value rounded to 4 decimal places is 0.5454.
C12_RoundsTo5454 ==
    temporal.called =>
        /\ CallTimeDiff \in {0, 300} => temporal.score = <<1, 1>>
        /\ CallTimeDiff = 1800 => Round4(temporal.score) = 5454

\* C12 amended: the temporal score is 1.0 at time differences 0 and 300, and
\* at 1800 its value (6/11 = 0.545454...) rounded to 4 decimal places is 0.5455.
C12_RoundsTo5455 ==
    temporal.called =>
        /\ CallTimeDiff \in {0, 300} => temporal.score = <<1, 1>>
        /\ CallTimeDiff = 1800 => Round4(temporal.score) = 5455

\* C12 witness: the function has been applied to a time difference of 1800.
C12_Witness ==
    temporal.called /\ CallTimeDiff = 1800 /\ temporal.score = <<6, 11>>

\* the reference g of C13 for byte count bc and bandwidth kb, with the
\* utilization u = bc / (kb * 1024) compared by cross-multiplication
ReferenceG(bc, kb) ==
    LET b == kb * 1024 IN
    IF kb = 0 THEN <<1, 2>>
    ELSE IF 10 * bc < b THEN Rat(10 * bc, b)                   \* u < 0.1: u / 0.1
    ELSE IF 10 * bc <= 8 * b THEN <<1, 1>>                     \* 0.1 <= u <= 0.8
    ELSE IF 5 * b - 5 * bc >= 0 /\ 5 * (5 * b - 5 * bc) >= b   \* 1 - (u - 0.8)/0.2 >= 0.2
         THEN Rat(5 * b - 5 * bc, b)
    ELSE <<1, 5>>

\* C13: for every byte_count >= 0 and bandwidth_kb >= 0 the bandwidth score
\* equals the reference g (0.5 for bandwidth 0; for utilization u: 1.0 on
\* [0.1, 0.8], u/0.1 below, max(0.2, 1 - (u - 0.8)/0.2) above); utilization
\* 0.05 gives 0.5, 0.5 gives 1.0, 0.9 gives 0.5; the score lies in [0, 1].
C13_EqualsReference ==
    bandwidth.called =>
        LET bc == bandwidth.flow_byte_count
            kb == bandwidth.node_bandwidth_kb
        IN  /\ bandwidth.score = ReferenceG(bc, kb)
            /\ kb = 0 => bandwidth.score = <<1, 2>>
            /\ (kb > 0 /\ 100 * bc = 5 * kb * 1024) => bandwidth.score = <<1, 2>>
            /\ (kb > 0 /\ 10 * bc = 5 * kb * 1024) => bandwidth.score = <<1, 1>>
            /\ (kb > 0 /\ 10 * bc = 9 * kb * 1024) => bandwidth.score = <<1, 2>>
            /\ 0 <= bandwidth.score[1] /\ bandwidth.score[1] <= bandwidth.score[2]

\* C13 witness: the function has been applied at utilization 0.9, where the
\* branch above 0.8 gives 0.5.
C13_Witness ==
    /\ bandwidth.called
    /\ bandwidth.node_bandwidth_kb > 0
    /\ 10 * bandwidth.flow_byte_count = 9 * bandwidth.node_bandwidth_kb * 1024
    /\ bandwidth.score = <<1, 2>>

\* the number of entries of history h equal to fp
RECURSIVE Occurrences(_, _)
Occurrences(fp, h) ==
    IF h = <<>> THEN 0 ELSE (IF Head(h) = fp THEN 1 ELSE 0) + Occurrences(fp, Tail(h))

\* C14: the pattern score is 0.5 when the fingerprint or the history is empty,
\* min(1.0, 0.5 + 0.1 m) when the fingerprint occurs m >= 1 times in the
\* history (0.6 for one occurrence, 1.0 from five on) and 0.3 when both are
\* non-empty and it does not occur; every persisted correlation record has
\* pattern_score = 0.5.
C14_PatternScore ==
    /\ pattern.called =>
          LET fp == pattern.flow_fingerprint
              h == pattern.historical_fingerprints
              m == Occurrences(fp, h)
          IN  /\ (fp = "" \/ h = <<>>) => pattern.score = <<1, 2>>
              /\ (fp # "" /\ h # <<>> /\ m = 0) => pattern.score = <<3, 10>>
              /\ (fp # "" /\ m = 1) => pattern.score = <<3, 5>>
              /\ (fp # "" /\ m >= 1 /\ m < 5) => 10 * pattern.score[1] = (5 + m) * pattern.score[2]
              /\ (fp # "" /\ m >= 5) => pattern.score = <<1, 1>>
    /\ \A j \in Rows : correlation_results[j].pattern_score = 5000

\* C14 witness: the function has been applied to a history with more than
\* five occurrences, and the engine has persisted a record.
C14_Witness ==
    /\ pattern.called
    /\ pattern.flow_fingerprint # ""
    /\ Occurrences(pattern.flow_fingerprint, pattern.historical_fingerprints) > 5
    /\ pattern.score = <<1, 1>>
    /\ \E j \in Rows : FlowOf(correlation_results[j]).flow_fingerprint # ""

\* the first FINGERPRINT_WINDOW packets of a group
FirstPackets(g) == SubSeq(g, 1, Min(Len(g), FINGERPRINT_WINDOW))

\* their lengths
WindowSizes(g) == [j \in 1..Len(FirstPackets(g)) |-> g[j].len]

\* a difference of d microseconds in milliseconds, truncated toward zero
TruncatedMs(d) == IF d < 0 THEN 0 - ((0 - d) \div 1000) ELSE d \div 1000

\* the successive inter-arrival times between them, min(window, count) - 1 values
WindowGaps(g) == [j \in 1..(Len(FirstPackets(g)) - 1) |-> TruncatedMs(g[j + 1].time - g[j].time)]

\* C16: two packet groups that agree on the lengths of their first 20 packets
\* (here FINGERPRINT_WINDOW) and on the successive inter-arrival times between
\* them, in milliseconds truncated toward zero, get the identical fingerprint,
\* whatever their addresses, ports, absolute timestamps or later packets are;
\* an empty group gets the empty string.
C16_FingerprintOfShapeOnly ==
    fingerprints.called =>
        LET g1 == fingerprints.groups[1]
            g2 == fingerprints.groups[2]
        IN  /\ \A g \in 1..2 : fingerprints.groups[g] = <<>> => fingerprints.values[g] = ""
            /\ (WindowSizes(g1) = WindowSizes(g2) /\ WindowGaps(g1) = WindowGaps(g2))
                  => fingerprints.values[1] = fingerprints.values[2]

\* the positions of the capture whose packet carries an IP header
IpPackets == { j \in 1..Len(capture) : capture[j].hdr.ip }

\* the 5-tuple of a flow row
RowKey(row) == <<row.src_ip, row.dst_ip, row.src_port, row.dst_port, row.protocol>>

\* the positions of the capture whose packet belongs to the flow of the row
PacketsOf(row) == { j \in IpPackets : flow_key(capture[j]) = RowKey(row) }

RECURSIVE SumOfLens(_)
SumOfLens(positions) ==
    IF positions = {} THEN 0
    ELSE LET j == CHOOSE x \in positions : TRUE IN capture[j].len + SumOfLens(positions \ {j})

RECURSIVE SumOfCounts(_)
SumOfCounts(rows) ==
    IF rows = <<>> THEN 0 ELSE Head(rows).packet_count + SumOfCounts(Tail(rows))

\* the flow rows an extraction that returned has persisted
ExtractedRows == [m \in 1..Len(extract.flow_ids) |-> network_flows[extract.flow_ids[m]]]

\* C15: extract_flows partitions exactly the packets with an IP header: each
\* is counted in exactly one flow, the one with its 5-tuple, packets without
\* the header are counted nowhere and create no flow; every flow record has
\* packet_count >= 1 and byte_count = the sum of the lengths of its packets,
\* and the packet_counts sum to the number of IP packets of the capture.
C15_PartitionsIpPackets ==
    extract.at = "returned" =>
        /\ \A j \in IpPackets :
              Cardinality({ m \in 1..Len(ExtractedRows) :
                              RowKey(ExtractedRows[m]) = flow_key(capture[j]) }) = 1
        /\ \A m \in 1..Len(ExtractedRows) :
              /\ ExtractedRows[m].packet_count >= 1
              /\ ExtractedRows[m].packet_count = Cardinality(PacketsOf(ExtractedRows[m]))
              /\ ExtractedRows[m].byte_count = SumOfLens(PacketsOf(ExtractedRows[m]))
        /\ SumOfCounts(ExtractedRows) = Cardinality(IpPackets)
        /\ Len(network_flows) = Len(ExtractedRows)

\* C15 witness: a capture with a packet without IP header and two IP packets
\* of different lengths in one flow has been extracted.
C15_Witness ==
    /\ extract.at = "returned"
    /\ IpPackets # 1..Len(capture)
    /\ \E m \in 1..Len(ExtractedRows) :
          /\ ExtractedRows[m].packet_count = 2
          /\ ExtractedRows[m].byte_count = 1560

\* C17: after a call of correlate_flow_to_guards that a failing datastore
\* call has ended, correlation_results holds none of the records of that call
\* (all of them is excluded: the failing write is not among them).
C17_NoPartialSetAfterFailure ==
    \A w \in Workers :
        (CallEnded(w) /\ hist[w].outcome = "failed") => Persisted(w) = {}

\* C18: correlate_flow_to_guards does not return a result list, and
\* correlate_all_flows does not return {flows_processed, total_correlations},
\* for a run in which a datastore call of a flow has failed.
C18_FailureIsSurfaced ==
    \A w \in Workers :
        (pc[w] = "idle" /\ hist[w].outcome = "failed") => result[w].kind # "ok"

\* the score a candidate gets when no computation fails, and 0.0 for a score
\* whose input is missing
ExpectedTemporal(flow, n) ==
    IF n.last_seen = None THEN <<0, 1>> ELSE TemporalOf(Abs(flow.timestamp - n.last_seen))

ExpectedBandwidth(flow, n) ==
    IF n.bandwidth_kb = None THEN <<0, 1>> ELSE ReferenceG(flow.byte_count, n.bandwidth_kb)

\* 0.5 t + 0.3 b + 0.2 * 0.5
ExpectedConfidence(flow, n) ==
    RAdd(RAdd(RMul(ExpectedTemporal(flow, n), <<1, 2>>), RMul(ExpectedBandwidth(flow, n), <<3, 10>>)),
         <<1, 10>>)

\* the record the call of w has kept and persisted for node n has these scores
KeptWith(w, n, t, b, c) ==
    \E m \in 1..Len(local[w].correlations) :
        /\ local[w].correlations[m].candidate_node_fingerprint = n.fingerprint
        /\ local[w].correlations[m].temporal_score = Round4(t)
        /\ local[w].correlations[m].bandwidth_score = Round4(b)
        /\ local[w].correlations[m].confidence_score = Round4(c)
        /\ \E id \in Persisted(w) : correlation_results[id] = local[w].correlations[m]

\* C19: a score whose input (last_seen, bandwidth_kb) is missing is 0.0 and
\* nothing is raised: the candidate still gets its other scores and its
\* confidence, and every candidate of the flow is kept and persisted exactly
\* when that confidence reaches the threshold, with those scores.
C19_ScoreFailureFallsBack ==
    \A w \in Workers :
        pc[w] = "score" =>
            \A j \in Done(w) :
                LET n == local[w].guard_nodes[j]
                    flow == local[w].flow[1]
                    c == ExpectedConfidence(flow, n)
                IN  IF 3 * c[2] <= 10 * c[1]
                    THEN KeptWith(w, n, ExpectedTemporal(flow, n), ExpectedBandwidth(flow, n), c)
                    ELSE ~KeptAndPersisted(w, n)

\* C19 witness: the loop has kept a candidate whose last_seen is missing and,
\* after it, a candidate with no missing value.
C19_Witness ==
    \E w \in Workers :
        /\ pc[w] = "score"
        /\ \E a, b \in Done(w) :
              /\ a < b
              /\ local[w].guard_nodes[a].last_seen = None
              /\ KeptAndPersisted(w, local[w].guard_nodes[a])
              /\ local[w].guard_nodes[b].last_seen # None
              /\ local[w].guard_nodes[b].bandwidth_kb # None
              /\ KeptAndPersisted(w, local[w].guard_nodes[b])

\* C19 second witness state: a candidate whose bandwidth is missing is kept,
\* one with both values missing is dropped.
C19_BandwidthMissingKept ==
    \E w \in Workers :
        /\ pc[w] = "score"
        /\ \E a, b \in Done(w) :
              /\ local[w].guard_nodes[a].bandwidth_kb = None
              /\ KeptAndPersisted(w, local[w].guard_nodes[a])
              /\ local[w].guard_nodes[b].last_seen = None
              /\ local[w].guard_nodes[b].bandwidth_kb = None
              /\ ~KeptAndPersisted(w, local[w].guard_nodes[b])

\* C20: ingestion of one capture is all-or-nothing: when extract_flows ends
\* with an error, no flow record of that call is left persisted; when it
\* returns, every extracted flow is persisted and its flow_id is in the
\* returned list.
C20_AllOrNothing ==
    /\ extract.at = "raised" => network_flows = <<>>
    /\ extract.at = "returned" =>
          /\ Len(extract.flow_ids) = Len(extract.flows)
          /\ \A m \in 1..Len(extract.flows) :
                /\ extract.flow_ids[m] \in 1..Len(network_flows)
                /\ RowKey(network_flows[extract.flow_ids[m]]) = extract.flows[m].key

\* the half of C20 about a call that returns
C20_AllWhenReturned ==
    extract.at = "returned" =>
        /\ Len(extract.flow_ids) = Len(extract.flows)
        /\ \A m \in 1..Len(extract.flows) :
              /\ extract.flow_ids[m] \in 1..Len(network_flows)
              /\ RowKey(network_flows[extract.flow_ids[m]]) = extract.flows[m].key

\* C21: a directory refresh that interleaves with a running batch pass does
\* not show: the guard list of a flow holds the node data its exit lookup has
\* seen (the row of the exit node, when it is among the guards, has the same
\* last_seen and bandwidth_kb in both).
C21_OneSnapshot ==
    \A w \in Workers :
        (pc[w] = "score" /\ exit_node[w] # <<>>) =>
            \A j \in 1..Len(local[w].guard_nodes) :
                local[w].guard_nodes[j].fingerprint = exit_node[w][1].fingerprint =>
                    /\ local[w].guard_nodes[j].last_seen = exit_node[w][1].last_seen
                    /\ local[w].guard_nodes[j].bandwidth_kb = exit_node[w][1].bandwidth_kb

\* the place in the capture of the first packet of a flow record
FirstSeen(row) == CHOOSE j \in PacketsOf(row) : \A k \in PacketsOf(row) : j <= k

\* the 5-tuple of the opposite direction
Reversed(key) == <<key[2], key[1], key[4], key[3], key[5]>>

\* C22: the flow records of one extraction run have pairwise different
\* 5-tuples, the two directions of a conversation are two records, and the
\* records are persisted, and their ids returned, in the order in which their
\* 5-tuples are first seen in the capture.
C22_DistinctKeysInCaptureOrder ==
    extract.at = "returned" =>
        /\ \A m, n \in 1..Len(ExtractedRows) :
              m # n => RowKey(ExtractedRows[m]) # RowKey(ExtractedRows[n])
        /\ \A j, k \in IpPackets :
              (flow_key(capture[j]) = Reversed(flow_key(capture[k]))
                  /\ flow_key(capture[j]) # flow_key(capture[k])) =>
                 \E m, n \in 1..Len(ExtractedRows) :
                    /\ m # n
                    /\ RowKey(ExtractedRows[m]) = flow_key(capture[j])
                    /\ RowKey(ExtractedRows[n]) = flow_key(capture[k])
        /\ \A m \in 1..Len(ExtractedRows) : PacketsOf(ExtractedRows[m]) # {}
        /\ \A m, n \in 1..Len(ExtractedRows) :
              m < n => /\ FirstSeen(ExtractedRows[m]) < FirstSeen(ExtractedRows[n])
                       /\ extract.flow_ids[m] < extract.flow_ids[n]

\* C22 witness: a capture whose first packet is the answer of a connection and
\* whose later packets are of the other direction, two of them, has been
\* extracted into two flow records, the answer's first.
C22_Witness ==
    /\ extract.at = "returned"
    /\ Len(capture) = 3
    /\ capture[1].hdr = HeaderBack
    /\ capture[2].hdr = HeaderA
    /\ capture[3].hdr = HeaderAck
    /\ Len(ExtractedRows) = 2
    /\ RowKey(ExtractedRows[1]) = flow_key(capture[1])
    /\ RowKey(ExtractedRows[2]) = Reversed(flow_key(capture[1]))
    /\ ExtractedRows[2].packet_count = 2

\* the flows that had no correlation record when the run of request w
\* selected its flows
UncorrelatedAtSelection(w) == (1..hist[w].sel_flows) \ hist[w].sel_correlated

\* C23: a batch run that returns its totals returns, as total_correlations,
\* the number of records it has inserted into correlation_results and, as
\* flows_processed, the number of flows that had no record when it selected.
C23_TotalsMatchTheTables ==
    \A w \in Workers :
        (pc[w] = "idle" /\ result[w].kind = "ok") =>
            /\ result[w].total_correlations = hist[w].run_ins
            /\ result[w].flows_processed = Cardinality(UncorrelatedAtSelection(w))

\* the half of C23 about flows_processed
C23_FlowsProcessedMatches ==
    \A w \in Workers :
        (pc[w] = "idle" /\ result[w].kind = "ok") =>
            result[w].flows_processed = Cardinality(UncorrelatedAtSelection(w))

\* x <= y, compared over the least common denominator
RLeqReduced(x, y) == LET g == Gcd(x[2], y[2]) IN x[1] * (y[2] \div g) <= y[1] * (x[2] \div g)

\* C24: the temporal score does not increase with the time difference: on
\* whole seconds, the score of a call is at most the score at a time
\* difference one second smaller (and so, step by step, at most the score at
\* every smaller time difference).
C24_NonIncreasing ==
    (temporal.called /\ CallTimeDiff >= 1) =>
        RLeqReduced(temporal.score, calculate_temporal_score(CallTimeDiff - 1, 0))

\* C24 everywhere but across the boundary of one hour
C24_NonIncreasingWithinBranches ==
    (temporal.called /\ CallTimeDiff >= 1 /\ CallTimeDiff # 3601) =>
        RLeqReduced(temporal.score, calculate_temporal_score(CallTimeDiff - 1, 0))

\* the flows the run of request w has selected
Selected(w) == { local[w].flow_ids[a] : a \in 1..Len(local[w].flow_ids) }

\* C25: a batch run selects exactly the flows that have no correlation record
\* when it selects, each of them once: a flow no earlier pass has persisted a
\* record for is selected again by every run, a flow with a record by none;
\* a run that returns its totals has passed each selected flow to
\* correlate_flow_to_guards and counts each in flows_processed.
C25_UncorrelatedStaySelected ==
    \A w \in Workers :
        (pc[w] # "idle" \/ result[w].kind = "ok") =>
            /\ Selected(w) = UncorrelatedAtSelection(w)
            /\ Len(local[w].flow_ids) = Cardinality(Selected(w))
            /\ result[w].kind = "ok" =>
                  /\ local[w].k = Len(local[w].flow_ids) + 1
                  /\ result[w].flows_processed = Cardinality(Selected(w))

\* C25 witness: the second of two runs in succession has selected and counted
\* the flow for which the first, and itself, have persisted no record.
C25_Witness ==
    /\ runs = 2
    /\ pc["w1"] = "idle"
    /\ result["w1"].kind = "ok"
    /\ Selected("w1") = {1}
    /\ result["w1"].flows_processed = 1
    /\ correlation_results = <<>>

====
